---- MODULE Spec2Model ----
(***************************************************************************)
(* Model of tree_design.py (Composite, Visitor, Iterator and State         *)
(* patterns over a mock decision tree) and of the way tree_demo.py drives  *)
(* it.                                                                     *)
(*                                                                         *)
(* Objects live in a heap: heap[n] is the object with identity n, a        *)
(* record carrying its class name and its attributes (children for a       *)
(* DecisionNode, value for a LeafNode).  Python lists are sequences; the   *)
(* top of the iterator's stack is the LAST element, as list.pop() and      *)
(* list.append() have it.                                                  *)
(***************************************************************************)
EXTENDS Integers, Sequences, FiniteSets, TLC

VARIABLES
    heap,       \* Node objects by identity: DecisionNode.children / LeafNode.value
    hasIter,    \* a PreOrderIterator object has been constructed
    itRoot,     \* the root it was constructed with (None when absent)
    stack,      \* PreOrderIterator.stack
    yielded,    \* the nodes __next__ has returned so far, in order
    raised,     \* how many times __next__ has raised StopIteration
    visitLog,   \* what the last root.accept_visitor(visitor) call printed
    other,      \* a second PreOrderIterator object: its root, stack, yields, raises
    adds,       \* the add_child_node calls made while the iterator was in use
    state,      \* TreeBuilder._state
    log,        \* what the TreeBuilder and its states have printed
    calls       \* the calls the caller has made on the TreeBuilder, in order

vars == <<heap, hasIter, itRoot, stack, yielded, raised, visitLog, other, adds,
          state, log, calls>>
treeVars == <<heap, hasIter, itRoot, stack, yielded, raised, visitLog, other, adds>>
iterVars == <<hasIter, itRoot, stack, yielded, raised>>
builderVars == <<state, log, calls>>

----------------------------------------------------------------------------
(* Bounds of the model. The faulty variants defined next to some operators   *)
(* are the code with one plausible slip; the properties below must tell     *)
(* each of them from the code.                                              *)

MaxNodes == 4        \* objects the caller creates
MaxRaised == 2       \* pulls made on an exhausted iterator
MaxCalls == 5        \* calls made on the TreeBuilder
MaxGraphNodes == 3   \* objects, when add_child_node is given any node
MaxGraphEdges == 3   \* add_child_node calls, when it is given any node

(* Python's None: the absent root, the unset builder state *)
None == 0

Labels == {"Folha 1"}
Visitors == {"DepthVisitor", "CountLeavesVisitor"}
States == {"SplittingState", "PruningState", "StoppingState"}

Nodes == 1..Len(heap)

----------------------------------------------------------------------------
(* Sequences *)

RECURSIVE reversed(_)
reversed(s) == IF s = <<>> THEN <<>> ELSE Append(reversed(Tail(s)), Head(s))

----------------------------------------------------------------------------
(* Node hierarchy *)

isinstance(n, cls) == n \in Nodes /\ heap[n].class = cls

\* DecisionNode(): a new object with an empty list of children
DecisionNode_init ==
    heap' = Append(heap, [class |-> "DecisionNode", children |-> <<>>])

\* LeafNode(value)
LeafNode_init(v) ==
    heap' = Append(heap, [class |-> "LeafNode", value |-> v])

\* Faulty variant: self.children.insert(0, node)
add_child_node_prepend(self, node) ==
    /\ isinstance(self, "DecisionNode")
    /\ heap' = [heap EXCEPT ![self].children = <<node>> \o @]

\* self.children.append(node)
add_child_node(self, node) ==
    /\ isinstance(self, "DecisionNode")
    /\ heap' = [heap EXCEPT ![self].children = Append(@, node)]

\* Faulty variant: LeafNode without its __str__ override
str_base(n) == heap[n].class

\* Node.__str__ / LeafNode.__str__
str(n) ==
    IF isinstance(n, "LeafNode")
    THEN heap[n].class \o " -> '" \o heap[n].value \o "'"
    ELSE heap[n].class

----------------------------------------------------------------------------
(* Shape of the object graph *)

children_of(n) == IF isinstance(n, "DecisionNode") THEN heap[n].children ELSE <<>>

Range(s) == {s[i] : i \in 1..Len(s)}

has_parent(n) == \E p \in Nodes : n \in Range(children_of(p))

\* The nodes reachable from n through children lists, n included
RECURSIVE ReachIn(_, _)
ReachIn(frontier, seen) ==
    IF frontier \subseteq seen THEN seen
    ELSE ReachIn(UNION {Range(children_of(m)) : m \in frontier} \ (seen \cup frontier),
                 seen \cup frontier)

subtree(n) == ReachIn({n}, {})

\* What the owner of a tree may pass to add_child_node: a node that is nobody's
\* child yet and that is not the tree self hangs in (no sharing, no cycle)
tree_discipline(self, node) == ~has_parent(node) /\ self \notin subtree(node)

----------------------------------------------------------------------------
(* Visitors: what one accept_visitor call prints, one entry per visit_* call *)

RECURSIVE accept_visitor(_, _)
RECURSIVE visit_children(_, _)

\* Faulty variant: for child in reversed(node.children): child.accept_visitor(self)
visit_children_reversed(visitor, cs) ==
    IF cs = <<>> THEN <<>>
    ELSE visit_children(visitor, Tail(cs)) \o accept_visitor(Head(cs), visitor)

\* for child in node.children: child.accept_visitor(self)
visit_children(visitor, cs) ==
    IF cs = <<>> THEN <<>>
    ELSE accept_visitor(Head(cs), visitor) \o visit_children(visitor, Tail(cs))

visit_decision(visitor, node) ==
    <<[visitor |-> visitor, method |-> "visit_decision", node |-> node, text |-> str(node)]>>
        \o visit_children(visitor, heap[node].children)

visit_leaf(visitor, node) ==
    <<[visitor |-> visitor, method |-> "visit_leaf", node |-> node, text |-> str(node)]>>

\* Faulty variant: every node dispatches as LeafNode does
accept_visitor_as_leaf(self, visitor) == visit_leaf(visitor, self)

\* DecisionNode.accept_visitor / LeafNode.accept_visitor
accept_visitor(self, visitor) ==
    IF isinstance(self, "DecisionNode")
    THEN visit_decision(visitor, self)
    ELSE visit_leaf(visitor, self)

\* root.accept_visitor(visitor), as the caller runs it
run_visitor(r, visitor) ==
    /\ visitLog' = accept_visitor(r, visitor)
    /\ UNCHANGED heap

----------------------------------------------------------------------------
(* PreOrderIterator *)

\* Faulty variant: self.stack = [root]
PreOrderIterator_init_unchecked(r) ==
    /\ hasIter' = TRUE
    /\ itRoot' = r
    /\ stack' = <<r>>
    /\ yielded' = <<>>
    /\ raised' = 0

\* Faulty variant: self.stack = list(reversed(root.children)): the root itself is skipped
PreOrderIterator_init_children(r) ==
    /\ hasIter' = TRUE
    /\ itRoot' = r
    /\ stack' = IF r # None THEN reversed(children_of(r)) ELSE <<>>
    /\ yielded' = <<>>
    /\ raised' = 0

\* A PreOrderIterator object with what it has returned and raised so far;
\* NoIterator where none has been constructed
NoIterator == [has |-> FALSE, root |-> None, stack |-> <<>>, yielded |-> <<>>, raised |-> 0]

\* self.stack = [root] if root else []
PreOrderIterator_new(r) ==
    [has |-> TRUE, root |-> r, stack |-> IF r # None THEN <<r>> ELSE <<>>,
     yielded |-> <<>>, raised |-> 0]

\* iterator = PreOrderIterator(root)
PreOrderIterator_init(r) ==
    LET it == PreOrderIterator_new(r)
    IN  /\ hasIter' = it.has
        /\ itRoot' = it.root
        /\ stack' = it.stack
        /\ yielded' = it.yielded
        /\ raised' = it.raised

\* Faulty variant: node = self.stack[-1]: the node is read and left on the stack
pop_peek(s) == [node |-> s[Len(s)], rest |-> s]

\* Faulty variant: node = self.stack.pop(0): the oldest entry is taken
pop_front(s) == [node |-> Head(s), rest |-> Tail(s)]

\* node = self.stack.pop(): the node taken and the stack left
pop(s) == [node |-> s[Len(s)], rest |-> SubSeq(s, 1, Len(s) - 1)]

\* Faulty variant: for child in node.children: self.stack.append(child)
push_children_in_order(rest, node) ==
    IF isinstance(node, "DecisionNode")
    THEN rest \o heap[node].children
    ELSE rest

\* Faulty variant: only the first child is pushed
push_children_first_only(rest, node) ==
    IF isinstance(node, "DecisionNode") /\ heap[node].children # <<>>
    THEN Append(rest, heap[node].children[1])
    ELSE rest

\* Faulty variant: the iterator works on the children lists as they were when
\* it was constructed
push_children_snapshot(rest, node) ==
    IF isinstance(node, "DecisionNode")
    THEN rest \o reversed(SelectSeq(heap[node].children,
                LAMBDA c : \A a \in adds : a.node # c))
    ELSE rest

\* Faulty variant: children the iterator has met before are not pushed again
push_children_unvisited(rest, node) ==
    IF isinstance(node, "DecisionNode")
    THEN rest \o reversed(SelectSeq(heap[node].children,
                LAMBDA c : c # node /\ \A i \in 1..Len(yielded) : yielded[i] # c))
    ELSE rest

\* the stack after node was popped from it: a DecisionNode's children are
\* appended in reverse order
push_children(rest, node) ==
    IF isinstance(node, "DecisionNode")
    THEN rest \o reversed(heap[node].children)
    ELSE rest

\* One call of __next__ on the iterator object it: StopIteration when the
\* stack is empty, else the popped node is returned and its children pushed
next_of(it) ==
    IF it.stack = <<>>
    THEN [it EXCEPT !.raised = @ + 1]
    ELSE LET p == pop(it.stack)
         IN  [it EXCEPT !.stack = push_children(p.rest, p.node),
                        !.yielded = Append(@, p.node)]

\* the first iterator, as an object
iterator ==
    [has |-> hasIter, root |-> itRoot, stack |-> stack, yielded |-> yielded,
     raised |-> raised]

\* Faulty variant: an exhausted iterator rewinds to its root instead of staying empty
next_rewinding ==
    /\ hasIter
    /\ IF stack = <<>>
       THEN /\ raised < MaxRaised
            /\ raised' = raised + 1
            /\ stack' = IF itRoot # None THEN <<itRoot>> ELSE <<>>
            /\ UNCHANGED yielded
       ELSE LET p == pop(stack)
            IN  /\ stack' = push_children(p.rest, p.node)
                /\ yielded' = Append(yielded, p.node)
                /\ UNCHANGED raised
    /\ UNCHANGED <<hasIter, itRoot, heap>>

\* Faulty variant: node.children.reverse() turns the node's own list round
next_reversing_in_place ==
    /\ hasIter
    /\ stack = <<>> => raised < MaxRaised
    /\ LET it == next_of(iterator)
       IN  /\ stack' = it.stack
           /\ yielded' = it.yielded
           /\ raised' = it.raised
    /\ heap' = IF stack # <<>> /\ isinstance(stack[Len(stack)], "DecisionNode")
               THEN [heap EXCEPT ![stack[Len(stack)]].children = reversed(@)]
               ELSE heap
    /\ UNCHANGED <<hasIter, itRoot>>

\* next(iterator): neither the tree nor the iterator's root changes
__next__ ==
    /\ hasIter
    /\ stack = <<>> => raised < MaxRaised
    /\ LET it == next_of(iterator)
       IN  /\ stack' = it.stack
           /\ yielded' = it.yielded
           /\ raised' = it.raised
    /\ UNCHANGED <<hasIter, itRoot, heap>>

\* iterator2 = PreOrderIterator(root): a second, separate object
other_init(r) ==
    /\ other' = PreOrderIterator_new(r)
    /\ UNCHANGED <<iterVars, heap>>

\* Faulty variant: stack is an attribute of the class, one list for all objects
other_next_shared_stack ==
    /\ other.has /\ hasIter
    /\ stack = <<>> => other.raised < MaxRaised
    /\ LET it == next_of([other EXCEPT !.stack = stack])
       IN  /\ other' = it
           /\ stack' = it.stack
    /\ UNCHANGED <<hasIter, itRoot, yielded, raised, heap>>

\* next(iterator2)
other_next ==
    /\ other.has
    /\ other.stack = <<>> => other.raised < MaxRaised
    /\ other' = next_of(other)
    /\ UNCHANGED <<iterVars, heap>>

----------------------------------------------------------------------------
(* TreeBuilder and its states; a builder is the pair of _state and the output *)

NoState == "None"

Transition(s) == [msg |-> "TreeBuilder: Transicao de Estado ->", state |-> s]
Phase(s) == [msg |-> "Estado: fase de construcao", state |-> s]
NoStateMsg == [msg |-> "TreeBuilder: Nenhum estado definido para avancar.", state |-> NoState]

\* Faulty variant: the terminal state cannot be replaced any more
set_state_sticky(b, s) ==
    [state |-> IF b.state = "StoppingState" THEN b.state ELSE s,
     log |-> Append(b.log, Transition(s))]

set_state(b, s) == [state |-> s, log |-> Append(b.log, Transition(s))]

\* Faulty variant: builder._state = PruningState(), without set_state
SplittingState_execute_silent(b) ==
    [state |-> "PruningState", log |-> Append(b.log, Phase("SplittingState"))]

SplittingState_execute(b) ==
    set_state([b EXCEPT !.log = Append(@, Phase("SplittingState"))], "PruningState")

\* Faulty variant: pruning hands the tree back to splitting
PruningState_execute_back(b) ==
    set_state([b EXCEPT !.log = Append(@, Phase("PruningState"))], "SplittingState")

PruningState_execute(b) ==
    set_state([b EXCEPT !.log = Append(@, Phase("PruningState"))], "StoppingState")

\* Faulty variant: the terminal state starts the cycle again
StoppingState_execute_restart(b) ==
    set_state([b EXCEPT !.log = Append(@, Phase("StoppingState"))], "SplittingState")

StoppingState_execute(b) ==
    [b EXCEPT !.log = Append(@, Phase("StoppingState"))]

execute_construction_phase(b) ==
    CASE b.state = "SplittingState" -> SplittingState_execute(b)
      [] b.state = "PruningState" -> PruningState_execute(b)
      [] b.state = "StoppingState" -> StoppingState_execute(b)

\* Faulty variant: a builder with no state starts at SplittingState by itself
advance_construction_autostart(b) ==
    IF b.state # NoState
    THEN execute_construction_phase(b)
    ELSE SplittingState_execute(b)

advance_construction(b) ==
    IF b.state # NoState
    THEN execute_construction_phase(b)
    ELSE [b EXCEPT !.log = Append(@, NoStateMsg)]

TreeBuilder_init == [state |-> NoState, log |-> <<>>]

builder == [state |-> state, log |-> log]

BuilderBecomes(b) ==
    /\ state' = b.state
    /\ log' = b.log

----------------------------------------------------------------------------
(* The program: a caller that assembles a tree and then traverses it *)

Init ==
    /\ heap = <<>>
    /\ hasIter = FALSE
    /\ itRoot = None
    /\ stack = <<>>
    /\ yielded = <<>>
    /\ raised = 0
    /\ visitLog = <<>>
    /\ other = NoIterator
    /\ adds = {}
    /\ state = TreeBuilder_init.state
    /\ log = TreeBuilder_init.log
    /\ calls = <<>>

\* The caller's root is the first object it creates (root = DecisionNode()).
\* Objects are named by creation order and the caller may create and link them
\* in any order, so every tree shape occurs with object 1 at its root, also as
\* a subtree of a larger tree.
root == IF heap = <<>> THEN None ELSE 1

\* The tree is assembled first and traversed afterwards: no node is created
\* or linked once an iterator exists or a visitor has run
Assembling == ~hasIter /\ ~other.has /\ visitLog = <<>>

NewDecisionNode ==
    /\ Assembling
    /\ Len(heap) < MaxNodes
    /\ DecisionNode_init
    /\ UNCHANGED <<iterVars, visitLog, other, adds, builderVars>>

NewLeafNode ==
    /\ Assembling
    /\ Len(heap) < MaxNodes
    /\ \E v \in Labels : LeafNode_init(v)
    /\ UNCHANGED <<iterVars, visitLog, other, adds, builderVars>>

AddChildNode ==
    /\ Assembling
    /\ \E self \in Nodes, node \in Nodes :
        /\ tree_discipline(self, node)
        /\ add_child_node(self, node)
    /\ UNCHANGED <<iterVars, visitLog, other, adds, builderVars>>

NewIterator ==
    /\ ~hasIter
    /\ \E r \in {root, None} : PreOrderIterator_init(r)
    /\ UNCHANGED <<heap, visitLog, other, adds, builderVars>>

Pull ==
    /\ __next__
    /\ UNCHANGED <<visitLog, other, adds, builderVars>>

RunVisitor ==
    /\ root # None
    /\ \E visitor \in Visitors : run_visitor(root, visitor)
    /\ UNCHANGED <<iterVars, other, adds, builderVars>>

SetState ==
    /\ Len(calls) < MaxCalls
    /\ \E s \in States :
        /\ BuilderBecomes(set_state(builder, s))
        /\ calls' = Append(calls, s)
    /\ UNCHANGED treeVars

AdvanceConstruction ==
    /\ Len(calls) < MaxCalls
    /\ BuilderBecomes(advance_construction(builder))
    /\ calls' = Append(calls, "advance_construction")
    /\ UNCHANGED treeVars

----------------------------------------------------------------------------
(* The demo script: its five objects, in the order main() creates them *)

DemoObjects ==
    << [class |-> "DecisionNode", children |-> <<>>],    \* root
       [class |-> "DecisionNode", children |-> <<>>],    \* child_decision_node
       [class |-> "LeafNode", value |-> "Folha 1"],      \* leaf1
       [class |-> "LeafNode", value |-> "Folha 2"],      \* leaf2
       [class |-> "LeafNode", value |-> "Folha 3"] >>    \* leaf3

InitDemo ==
    /\ heap = DemoObjects
    /\ hasIter = FALSE
    /\ itRoot = None
    /\ stack = <<>>
    /\ yielded = <<>>
    /\ raised = 0
    /\ visitLog = <<>>
    /\ other = NoIterator
    /\ adds = {}
    /\ state = TreeBuilder_init.state
    /\ log = TreeBuilder_init.log
    /\ calls = <<>>

----------------------------------------------------------------------------
(* A caller that keeps no discipline: add_child_node is given any node *)

RECURSIVE edges_from(_)
edges_from(n) == IF n = 0 THEN 0 ELSE Len(children_of(n)) + edges_from(n - 1)

GraphNewDecisionNode ==
    /\ Len(heap) < MaxGraphNodes
    /\ DecisionNode_init
    /\ UNCHANGED <<iterVars, visitLog, other, adds, builderVars>>

GraphNewLeafNode ==
    /\ Len(heap) < MaxGraphNodes
    /\ \E v \in Labels : LeafNode_init(v)
    /\ UNCHANGED <<iterVars, visitLog, other, adds, builderVars>>

AddAnyChildNode ==
    /\ edges_from(Len(heap)) < MaxGraphEdges
    /\ \E self \in Nodes, node \in Nodes : add_child_node(self, node)
    /\ UNCHANGED <<iterVars, visitLog, other, adds, builderVars>>

----------------------------------------------------------------------------

NextTree == NewDecisionNode \/ NewLeafNode \/ AddChildNode \/ NewIterator \/ Pull \/ RunVisitor

NextBuilder == SetState \/ AdvanceConstruction

Spec == Init /\ [][NextTree]_vars

SpecBuilder == Init /\ [][NextBuilder]_vars

NextDemo == AddChildNode \/ NewIterator \/ Pull \/ RunVisitor

SpecDemo == InitDemo /\ [][NextDemo]_vars

NextGraph == GraphNewDecisionNode \/ GraphNewLeafNode \/ AddAnyChildNode

SpecGraph == Init /\ [][NextGraph]_vars

----------------------------------------------------------------------------
(* Vocabulary of the properties *)

occurs(s, x) == \E i \in 1..Len(s) : s[i] = x

index_of(s, x) == CHOOSE i \in 1..Len(s) : s[i] = x /\ \A k \in 1..(i - 1) : s[k] # x

no_duplicates(s) == \A i, j \in 1..Len(s) : s[i] = s[j] => i = j

IsPrefix(s, t) == Len(s) <= Len(t) /\ \A i \in 1..Len(s) : s[i] = t[i]

\* the nodes a visitor run has visited, in order
visited == [i \in 1..Len(visitLog) |-> visitLog[i].node]

\* the iterator exists and was given a root
Iterating == hasIter /\ itRoot # None

\* how many nodes the iterator was given
N == IF itRoot = None THEN 0 ELSE Cardinality(subtree(itRoot))

----------------------------------------------------------------------------
(* Properties of the traversals (specification Spec) *)

\* C1: for every DecisionNode of the iterated tree with children c1..ck, by
\* the time the iterator yields a child cj it has yielded every earlier child
\* ci (i < j) and every node of ci's subtree: left to right, depth first.
C1_LeftToRightDepthFirst ==
    Iterating =>
        \A d \in subtree(itRoot) :
            LET cs == children_of(d)
            IN  \A i, j \in 1..Len(cs) :
                    (i < j /\ occurs(yielded, cs[j])) =>
                        \A x \in subtree(cs[i]) :
                            /\ occurs(yielded, x)
                            /\ index_of(yielded, x) < index_of(yielded, cs[j])

\* a second child has been yielded whose elder sibling has children of its own
C1_Witness ==
    /\ Iterating
    /\ \E d \in subtree(itRoot) :
        /\ Len(children_of(d)) >= 2
        /\ children_of(children_of(d)[1]) # <<>>
        /\ occurs(yielded, children_of(d)[2])

\* C2: the first node the iterator yields is the root (the first pull does
\* yield), and a node is yielded only after each of its ancestors.
C2_RootFirstParentBeforeDescendant ==
    Iterating =>
        /\ yielded = <<>> => (stack = <<itRoot>> /\ raised = 0)
        /\ yielded # <<>> => yielded[1] = itRoot
        /\ \A j \in 1..Len(yielded) :
            \A a \in subtree(itRoot) :
                (yielded[j] \in subtree(a) /\ yielded[j] # a) =>
                    \E i \in 1..(j - 1) : yielded[i] = a

\* a grandchild of the root has been yielded
C2_Witness ==
    /\ Iterating
    /\ \E c \in Range(children_of(itRoot)) :
        \E g \in Range(children_of(c)) : occurs(yielded, g)

\* C3: a visitor run from the root visits every node of the tree exactly once,
\* and in the order the iterator yields them from the same root: what the
\* iterator has yielded so far is a prefix of the visit, and all of it once the
\* iterator is exhausted.
C3_VisitorMatchesIterator ==
    visitLog # <<>> =>
        /\ no_duplicates(visited)
        /\ Range(visited) = subtree(root)
        /\ \A i \in 1..Len(visitLog) : visitLog[i].visitor = visitLog[1].visitor
        /\ (hasIter /\ itRoot = root) =>
            /\ IsPrefix(yielded, visited)
            /\ stack = <<>> => yielded = visited

\* both traversals have run to the end over a tree of four nodes, two levels deep
C3_Witness ==
    /\ visitLog # <<>>
    /\ hasIter /\ itRoot = root /\ raised > 0
    /\ Len(visited) = 4
    /\ \E c \in Range(children_of(root)) : children_of(c) # <<>>

\* C5: an iterator constructed with no root never holds nor returns a node:
\* its stack is empty from the start, so every pull, the first included,
\* raises StopIteration.
C5_NoRootYieldsNothing ==
    (hasIter /\ itRoot = None) => (stack = <<>> /\ yielded = <<>>)

\* an iterator without a root has been pulled
C5_Witness == hasIter /\ itRoot = None /\ raised >= 1

\* C6: over a root without children (a LeafNode, or a DecisionNode whose list
\* is empty) the iterator yields the root on the first pull and nothing else:
\* from the second pull on it raises StopIteration.
C6_ChildlessRootYieldsItself ==
    (Iterating /\ children_of(itRoot) = <<>>) =>
        \/ yielded = <<>> /\ stack = <<itRoot>> /\ raised = 0
        \/ yielded = <<itRoot>> /\ stack = <<>>

\* a lone LeafNode was yielded and the next pull raised StopIteration
C6_Witness ==
    /\ Iterating /\ isinstance(itRoot, "LeafNode")
    /\ yielded = <<itRoot>> /\ raised >= 1

\* C9: over a tree of N nodes the iterator yields no node twice and nothing
\* outside the tree; its stack is empty exactly when all N have been yielded;
\* StopIteration is raised only then, and leaves the stack empty and the
\* yielded sequence as it is, however often the iterator is pulled again.
C9_FiniteSinglePass ==
    hasIter =>
        /\ no_duplicates(yielded)
        /\ Iterating => Range(yielded) \subseteq subtree(itRoot)
        /\ Len(yielded) <= N
        /\ stack = <<>> <=> Len(yielded) = N
        /\ raised > 0 => (stack = <<>> /\ Len(yielded) = N)

\* an iterator over at least three nodes has raised StopIteration twice
C9_Witness == Iterating /\ raised >= 2 /\ Len(yielded) >= 3

\* how many nodes the visit of the first j - 1 of the children cs takes
RECURSIVE size_before(_, _)
size_before(cs, j) ==
    IF j <= 1 THEN 0
    ELSE size_before(cs, j - 1) + Cardinality(subtree(cs[j - 1]))

\* C12: each node of the tree takes the visitor exactly once and hands itself
\* to the method of its own variant: visit_decision for a DecisionNode,
\* visit_leaf for a LeafNode, never the other. A visit_decision is followed
\* by the visits of the node's children, in child order, each with its whole
\* subtree; a visit_leaf brings no further visit.
C12_DoubleDispatch ==
    visitLog # <<>> =>
        /\ Len(visitLog) = Cardinality(subtree(root))
        /\ \A i \in 1..Len(visitLog) :
            LET e == visitLog[i]
                cs == children_of(e.node)
            IN  /\ e.method = IF isinstance(e.node, "DecisionNode")
                              THEN "visit_decision" ELSE "visit_leaf"
                /\ e.method = "visit_leaf" => cs = <<>>
                /\ \A j \in 1..Len(cs) :
                    /\ i + 1 + size_before(cs, j) <= Len(visitLog)
                    /\ visited[i + 1 + size_before(cs, j)] = cs[j]

\* a visitor has run over a DecisionNode with two children, the first of
\* them a DecisionNode with a LeafNode below
C12_Witness ==
    /\ Len(visitLog) = 4
    /\ Len(children_of(root)) = 2
    /\ visitLog[2].method = "visit_decision"
    /\ visitLog[3].method = "visit_leaf"

\* a pull that returns a node
PullYields == yielded' # yielded

\* C14: a pull takes the top of the stack and returns it, leaving the entries
\* below in place; the children of a returned DecisionNode go on top in
\* reverse order, the first child uppermost, so that the next pull returns
\* the first child; a returned LeafNode puts nothing on the stack.
C14_PopThenPushReversed ==
    /\ [][PullYields =>
            /\ stack # <<>>
            /\ LET node == stack[Len(stack)]
                   below == Len(stack) - 1
                   cs == children_of(node)
               IN  /\ yielded' = Append(yielded, node)
                   /\ Len(stack') = below + Len(cs)
                   /\ \A k \in 1..below : stack'[k] = stack[k]
                   /\ \A k \in 1..Len(cs) : stack'[below + k] = cs[Len(cs) + 1 - k]
                   /\ isinstance(node, "LeafNode") => Len(stack') = below]_vars
    /\ [](\A i \in 1..(Len(yielded) - 1) :
            children_of(yielded[i]) # <<>>
                => yielded[i + 1] = children_of(yielded[i])[1])

\* a DecisionNode with two children has been returned, and the last pull
\* returned a LeafNode and left an entry on the stack
C14_Witness ==
    /\ Iterating /\ stack # <<>> /\ yielded # <<>>
    /\ isinstance(yielded[Len(yielded)], "LeafNode")
    /\ \E i \in 1..Len(yielded) : Len(children_of(yielded[i])) >= 2

\* the nodes below n in the order a visit from n goes through them
visit_order(n) ==
    LET run == accept_visitor(n, "DepthVisitor")
    IN  [i \in 1..Len(run) |-> run[i].node]

\* the subtrees of the stack entries, from the top entry down
RECURSIVE remaining(_)
remaining(stk) ==
    IF stk = <<>> THEN <<>>
    ELSE visit_order(stk[Len(stk)]) \o remaining(SubSeq(stk, 1, Len(stk) - 1))

\* C20: at any point of an iteration over a tree, no stack entry has been
\* yielded, no stack entry lies in the subtree of another, the nodes still to
\* be yielded are exactly those of the subtrees of the stack entries, and the
\* yields so far followed by these subtrees, top entry first, are the
\* pre-order of the whole tree.
C20_StackInvariant ==
    Iterating =>
        /\ Range(stack) \cap Range(yielded) = {}
        /\ \A i, j \in 1..Len(stack) : i # j => stack[i] \notin subtree(stack[j])
        /\ subtree(itRoot) \ Range(yielded)
                = UNION {subtree(stack[i]) : i \in 1..Len(stack)}
        /\ yielded \o remaining(stack) = visit_order(itRoot)

\* two entries wait on the stack, one of them with children, after a yield
C20_Witness ==
    /\ Iterating /\ yielded # <<>> /\ Len(stack) >= 2
    /\ \E i \in 1..Len(stack) : children_of(stack[i]) # <<>>

----------------------------------------------------------------------------
(* Properties of the builder (specification SpecBuilder) *)

Advance == "advance_construction"

\* the calls made after the i-th are all advances
only_advances_after(i) == \A j \in (i + 1)..Len(calls) : calls[j] = Advance

last(s, n) == SubSeq(s, Len(s) - n + 1, Len(s))

\* What the claim expects of set_state(Splitting) followed by k advances: the
\* state held, and the lines printed since
HeldAfter(k) ==
    CASE k = 0 -> "SplittingState"
      [] k = 1 -> "PruningState"
      [] k >= 2 -> "StoppingState"

PrintedAfter(k) ==
    <<Transition("SplittingState")>>
        \o (IF k >= 1 THEN <<Phase("SplittingState"), Transition("PruningState")>> ELSE <<>>)
        \o (IF k >= 2 THEN <<Phase("PruningState"), Transition("StoppingState")>> ELSE <<>>)
        \o [n \in 1..(k - 2) |-> Phase("StoppingState")]

\* C4: after set_state(SplittingState) and k advances the builder holds
\* Splitting (k = 0), Pruning (k = 1), Stopping (k >= 2), and has printed the
\* Splitting and Pruning phases with their transitions, in that order, then
\* one Stopping phase per further advance and no further transition.
C4_SplittingPruningStopping ==
    \A i \in 1..Len(calls) :
        (calls[i] = "SplittingState" /\ only_advances_after(i)) =>
            LET k == Len(calls) - i
            IN  /\ state = HeldAfter(k)
                /\ Len(log) >= Len(PrintedAfter(k))
                /\ last(log, Len(PrintedAfter(k))) = PrintedAfter(k)

\* set_state(SplittingState), then four advances: the fourth repeats Stopping
C4_Witness == calls = <<"SplittingState", Advance, Advance, Advance, Advance>>

\* C7: as long as the caller has only advanced and never set a state, the
\* builder holds no state and has printed the 'no state set' line once per
\* advance and nothing else: no phase, no transition.
C7_AdvanceWithoutState ==
    only_advances_after(0) =>
        /\ state = NoState
        /\ log = [n \in 1..Len(calls) |-> NoStateMsg]

\* a builder without state has been advanced three times
C7_Witness == calls = <<Advance, Advance, Advance>>

\* What the claims expect of one advance of a builder holding s: the state
\* held afterwards, and the lines printed
NextState(s) ==
    CASE s = "SplittingState" -> "PruningState"
      [] s = "PruningState" -> "StoppingState"
      [] s = "StoppingState" -> "StoppingState"

PrintedBy(s) ==
    IF s = "StoppingState"
    THEN <<Phase(s)>>
    ELSE <<Phase(s), Transition(NextState(s))>>

\* C11: whatever the builder held before, right after set_state(s) it holds s
\* and the transition to s is the last line printed; an advance that follows
\* runs the phase of s, so that set_state(SplittingState) on a builder that
\* had reached Stopping starts the Splitting -> Pruning -> Stopping sequence
\* again.
C11_SetStateReplaces ==
    \A i \in 1..Len(calls) :
        calls[i] \in States =>
            /\ i = Len(calls) =>
                /\ state = calls[i]
                /\ log # <<>> /\ log[Len(log)] = Transition(calls[i])
            /\ (i + 1 = Len(calls) /\ calls[i + 1] = Advance) =>
                /\ state = NextState(calls[i])
                /\ Len(log) >= 1 + Len(PrintedBy(calls[i]))
                /\ last(log, 1 + Len(PrintedBy(calls[i])))
                        = <<Transition(calls[i])>> \o PrintedBy(calls[i])

\* a builder that had reached Stopping was set to Splitting and advanced
C11_Witness ==
    /\ calls = <<"PruningState", Advance, "SplittingState", Advance>>
    /\ state = "PruningState"

\* an advance of a builder that holds a state
AdvanceStep == calls' = Append(calls, Advance) /\ state \in States

\* C13: an advance of a builder holding Splitting or Pruning prints exactly
\* the phase line and then the transition line to the next state, which it
\* holds afterwards; an advance in Stopping prints the phase line only and
\* the state held stays Stopping.
C13_PhaseThenTransition ==
    [][AdvanceStep =>
        /\ log' = log \o PrintedBy(state)
        /\ state' = NextState(state)]_vars

\* Splitting, Pruning and Stopping have each been advanced once
C13_Witness ==
    /\ calls = <<"SplittingState", Advance, Advance, Advance>>
    /\ Len(log) = 6

Rank(s) ==
    CASE s = "SplittingState" -> 1
      [] s = "PruningState" -> 2
      [] s = "StoppingState" -> 3

\* C15: an advance never takes a builder that holds a state to an earlier
\* state nor to no state, so Stopping is kept; and two advances after any
\* set_state, with no set_state in between, the builder holds Stopping.
C15_ForwardOnly ==
    /\ [][AdvanceStep => (state' \in States /\ Rank(state') >= Rank(state))]_vars
    /\ [](\A i \in 1..Len(calls) :
            (calls[i] \in States /\ only_advances_after(i) /\ Len(calls) - i >= 2)
                => state = "StoppingState")

\* a builder set to Pruning has been advanced three times
C15_Witness ==
    /\ calls = <<"PruningState", Advance, Advance, Advance>>
    /\ state = "StoppingState"

----------------------------------------------------------------------------
(* The demo's tree (specification SpecDemo) *)

\* root.add_child_node(child); root.add_child_node(leaf1);
\* child.add_child_node(leaf2); child.add_child_node(leaf3)
DemoTree ==
    /\ heap[1].children = <<2, 3>>
    /\ heap[2].children = <<4, 5>>

DemoOrder == <<1, 2, 4, 5, 3>>

DemoPrinted ==
    <<"DecisionNode", "DecisionNode", "LeafNode -> 'Folha 2'",
      "LeafNode -> 'Folha 3'", "LeafNode -> 'Folha 1'">>

\* C8: over the demo's tree the iterator yields root, child, Folha 2, Folha 3,
\* Folha 1: always a prefix of that sequence, all of it when it is exhausted,
\* and the nodes print as the demo shows them.
C8_DemoPreOrder ==
    (DemoTree /\ Iterating) =>
        /\ IsPrefix(yielded, DemoOrder)
        /\ stack = <<>> <=> yielded = DemoOrder
        /\ IsPrefix([i \in 1..Len(yielded) |-> str(yielded[i])], DemoPrinted)

\* the demo's loop has run to the end
C8_Witness == DemoTree /\ Iterating /\ raised >= 1 /\ Len(yielded) = 5

----------------------------------------------------------------------------
(* add_child_node on any node (specification SpecGraph) *)

\* one step leaves every existing object as it is, or appends one element to
\* the children of exactly one DecisionNode
AppendsOneChild ==
    /\ \A m \in Nodes :
        /\ m \in 1..Len(heap')
        /\ heap'[m].class = heap[m].class
        /\ isinstance(m, "LeafNode") => heap'[m] = heap[m]
        /\ isinstance(m, "DecisionNode") => IsPrefix(heap[m].children, heap'[m].children)
    /\ (Len(heap') = Len(heap) /\ heap' # heap) =>
        \E self \in Nodes, node \in Nodes :
            /\ isinstance(self, "DecisionNode")
            /\ heap'[self].children = Append(heap[self].children, node)
            /\ Len(heap'[self].children) = Len(heap[self].children) + 1
            /\ \A m \in Nodes \ {self} : heap'[m] = heap[m]

\* add_child_node takes the call, whatever node it is given
AcceptsAnyNode ==
    \A self \in Nodes, node \in Nodes :
        isinstance(self, "DecisionNode") => ENABLED add_child_node(self, node)

\* C10: add_child_node appends the node at the end of the children of the
\* node it is called on: the earlier children keep their places, the list
\* grows by one, nothing is removed, no other object changes; and it accepts
\* any node, the node itself and nodes already placed included.
C10_AppendOnly == [][AppendsOneChild]_vars /\ []AcceptsAnyNode

\* a DecisionNode has been made its own child, after another child
C10_Witness ==
    \E d \in Nodes :
        /\ Len(children_of(d)) >= 2
        /\ children_of(d)[Len(children_of(d))] = d
        /\ children_of(d)[1] # d

----------------------------------------------------------------------------
(* The tree and the builder side by side in one program *)

MaxFrameNodes == 3
MaxFrameCalls == 2

FrameNewDecisionNode == Len(heap) < MaxFrameNodes /\ NewDecisionNode

FrameNewLeafNode == Len(heap) < MaxFrameNodes /\ NewLeafNode

FrameSetState == Len(calls) < MaxFrameCalls /\ SetState

FrameAdvanceConstruction == Len(calls) < MaxFrameCalls /\ AdvanceConstruction

NextFrame ==
    \/ FrameNewDecisionNode \/ FrameNewLeafNode \/ AddChildNode
    \/ NewIterator \/ Pull \/ RunVisitor
    \/ FrameSetState \/ FrameAdvanceConstruction

SpecFrame == Init /\ [][NextFrame]_vars

\* C16: a step of the iterator (construction or a pull) or a visitor run
\* leaves every node's children and label as they were; a step of the builder
\* (set_state, advance_construction) leaves every tree, iterator and visitor
\* output as it was; a step on the tree side leaves the builder's held state
\* and its output as they were.
C16_FrameEffects ==
    [][ /\ (iterVars' # iterVars \/ visitLog' # visitLog) => heap' = heap
        /\ builderVars' # builderVars => treeVars' = treeVars
        /\ treeVars' # treeVars => (state' = state /\ log' = log /\ calls' = calls)
      ]_vars

C16_Witness ==
    /\ Len(children_of(root)) = 2
    /\ Len(yielded) = 3
    /\ Len(visitLog) = 3
    /\ calls = <<"SplittingState", Advance>>
    /\ state = "PruningState"
----------------------------------------------------------------------------
(* Two iterators over one tree, pulled in any interleaving *)

NewOtherIterator ==
    /\ root # None
    /\ ~other.has
    /\ other_init(root)
    /\ UNCHANGED <<visitLog, adds, builderVars>>

PullOther ==
    /\ other_next
    /\ UNCHANGED <<visitLog, adds, builderVars>>

NextTwo ==
    \/ NewDecisionNode \/ NewLeafNode \/ AddChildNode
    \/ NewIterator \/ Pull \/ NewOtherIterator \/ PullOther

SpecTwo == Init /\ [][NextTwo]_vars

\* C17: with two iterators on the same root, what each has yielded followed
\* by what its own stack still holds is the pre-order sequence of the tree,
\* so each yields that whole sequence by the time its stack is empty; a pull
\* on one leaves the other's stack, yields and raises as they were.
C17_IndependentIterators ==
    /\ [](Iterating => /\ yielded \o remaining(stack) = visit_order(root)
                       /\ stack = <<>> => yielded = visit_order(root))
    /\ [](other.has => /\ other.root = root
                       /\ other.yielded \o remaining(other.stack) = visit_order(root)
                       /\ other.stack = <<>> => other.yielded = visit_order(root))
    /\ [][ /\ other' # other => iterVars' = iterVars
           /\ iterVars' # iterVars => other' = other ]_vars

C17_Witness ==
    /\ Iterating /\ other.has
    /\ Len(visit_order(root)) = 4
    /\ Len(yielded) = 1
    /\ other.stack = <<>> /\ other.raised = 1
    /\ Len(other.yielded) = 4
----------------------------------------------------------------------------
(* The iterator over whatever an undisciplined caller has put together *)

MaxPulls == 6

MalformedNewDecisionNode == Assembling /\ GraphNewDecisionNode

MalformedNewLeafNode == Assembling /\ GraphNewLeafNode

MalformedAddChildNode == Assembling /\ AddAnyChildNode

BoundedPull == Len(yielded) < MaxPulls /\ Pull

NextMalformed ==
    \/ MalformedNewDecisionNode \/ MalformedNewLeafNode \/ MalformedAddChildNode
    \/ NewIterator \/ BoundedPull

SpecMalformed == Init /\ [][NextMalformed]_vars

\* a node below r is reachable from itself
cyclic_from(r) ==
    \E n \in subtree(r) : \E c \in Range(children_of(n)) : n \in subtree(c)

count(s, x) == Cardinality({i \in 1..Len(s) : s[i] = x})

\* the first k nodes of the structure below n unfolded depth first, every
\* entry of a children list standing for its own copy of what is below it
RECURSIVE unfolding(_, _), unfolding_of_list(_, _)
unfolding(n, k) ==
    IF k = 0 THEN <<>> ELSE <<n>> \o unfolding_of_list(children_of(n), k - 1)
unfolding_of_list(cs, k) ==
    IF cs = <<>> \/ k = 0 THEN <<>>
    ELSE LET first == unfolding(Head(cs), k)
         IN  first \o unfolding_of_list(Tail(cs), k - Len(first))

\* in how many ways n is reached from a through children lists, where there
\* is no cycle below a
RECURSIVE paths(_, _), paths_from_list(_, _)
paths(a, n) ==
    IF a = n THEN 1 ELSE paths_from_list(children_of(a), n)
paths_from_list(cs, n) ==
    IF cs = <<>> THEN 0 ELSE paths(Head(cs), n) + paths_from_list(Tail(cs), n)

\* C19: add_child_node having been given any nodes, the iterator yields the
\* depth-first unfolding of what is below its root, one copy of a node and of
\* everything below it per entry in a children list; where a node below the
\* root is reachable from itself the stack always holds an entry a cycle is
\* reachable from, so it is never empty and StopIteration is never raised;
\* where there is no cycle, an exhausted iterator has yielded every node as
\* many times as there are ways to reach it from the root.
C19_MalformedNotGuarded ==
    Iterating =>
        /\ yielded = unfolding(itRoot, Len(yielded))
        /\ cyclic_from(itRoot) =>
                /\ stack # <<>>
                /\ raised = 0
                /\ \E i \in 1..Len(stack) : cyclic_from(stack[i])
        /\ (~cyclic_from(itRoot) /\ stack = <<>>) =>
                \A n \in Nodes : count(yielded, n) = paths(itRoot, n)

C19_Witness ==
    /\ Iterating
    /\ cyclic_from(itRoot)
    /\ Len(yielded) >= 5
    /\ \E i \in 1..(Len(yielded) - 1) :
            yielded[i] = yielded[i + 1] /\ isinstance(yielded[i], "LeafNode")
----------------------------------------------------------------------------
(* Children appended while an iterator is part way through the tree *)

\* the nodes the iterator has still to come to: the stack entries and
\* everything below them
pending == UNION {subtree(stack[i]) : i \in 1..Len(stack)}

\* self.add_child_node(node) in the body of a loop over the iterator, which
\* has nodes still to yield; adds remembers where the iterator stood with
\* respect to self at that moment
AddChildWhileIterating ==
    /\ Iterating
    /\ stack # <<>>
    /\ \E self \in Nodes, node \in Nodes :
        /\ tree_discipline(self, node)
        /\ add_child_node(self, node)
        /\ adds' = adds \cup {[node |-> node, parent |-> self,
                                parent_in_tree |-> self \in subtree(itRoot),
                                parent_yielded |-> occurs(yielded, self),
                                parent_pending |-> self \in pending]}
    /\ UNCHANGED <<iterVars, visitLog, other, builderVars>>

\* for node in iterator: the next node, for the body of the loop to work on
LoopPull == stack # <<>> /\ Pull

NextLazy ==
    \/ NewDecisionNode \/ NewLeafNode \/ AddChildNode
    \/ NewIterator \/ LoopPull \/ AddChildWhileIterating

SpecLazy == Init /\ [][NextLazy]_vars

====
